---- MODULE Spec2Model ----
(***************************************************************************)
(* A model of wcosmo/wcosmo.py: the flat wCDM formula layer, the grid      *)
(* inversion z_at_value, the frame conversions and the FlatwCDM /          *)
(* FlatLambdaCDM configuration records with the named presets.             *)
(*                                                                         *)
(* Numbers.  A float of the program is modelled by an exact value          *)
(*     q * c^a * g^b * pi^e                                                *)
(* with q a reduced rational n/d and c = SPEED_OF_LIGHT_KM_PER_S,          *)
(* g = GYR_KM_PER_S_MPC, pi = xp.pi kept as symbols (every formula of the  *)
(* module is a monomial in them).  Each value carries its kind: "py" for a *)
(* Python scalar, "ns" for a numpy scalar (numpy.float64), "np" for the    *)
(* element of a numpy array, because Python raises where numpy returns inf *)
(* or nan, and a numpy scalar takes a power as C pow does where an array   *)
(* takes the square root.  Besides finite numbers a value is inf, nan, a   *)
(* complex number, or a raised exception.                                  *)
(* Inputs are drawn from sets on which the square root, the integral and   *)
(* the grid points a call looks at have exact rational values.             *)
(***************************************************************************)
EXTENDS Integers, Sequences, FiniteSets, TLC

VARIABLES recs, ctor, dicts, nset, asg, thr, call

vars == <<recs, ctor, dicts, nset, asg, thr, call>>

----------------------------------------------------------------------------
(* Exact arithmetic with Python / numpy error semantics                     *)

U0 == <<0, 0, 0>>

UAdd(u, v) == <<u[1] + v[1], u[2] + v[2], u[3] + v[3]>>

UScale(u, e) == <<u[1] * e, u[2] * e, u[3] * e>>

Abs(x) == IF x < 0 THEN -x ELSE x

RECURSIVE Gcd(_, _)
Gcd(a, b) == IF b = 0 THEN a ELSE Gcd(b, a % b)

RECURSIVE IPow(_, _)
IPow(b, e) == IF e = 0 THEN 1 ELSE b * IPow(b, e - 1)

\* r^m <= n, without computing a power larger than n
RECURSIVE PowLeq(_, _, _)
PowLeq(r, m, n) ==
    IF m = 0 THEN 1 <= n
    ELSE IF r = 0 THEN TRUE
    ELSE PowLeq(r, m - 1, n \div r)

\* the largest r in lo..hi with r^m <= n, by bisection
RECURSIVE FloorRootIn(_, _, _, _)
FloorRootIn(n, m, lo, hi) ==
    IF lo >= hi THEN lo
    ELSE LET mid == (lo + hi + 1) \div 2
         IN  IF PowLeq(mid, m, n) THEN FloorRootIn(n, m, mid, hi)
             ELSE FloorRootIn(n, m, lo, mid - 1)

HasRoot(n, m) == IPow(FloorRootIn(n, m, 0, n), m) = n

\* the exact integer m-th root (TLC stops if n has none: the input is outside
\* the exactly representable domain)
IRoot(n, m) == CHOOSE r \in {FloorRootIn(n, m, 0, n)} : IPow(r, m) = n

Fin(k, n, d, u) ==
    IF n = 0 THEN [t |-> "num", k |-> k, n |-> 0, d |-> 1, u |-> U0]
    ELSE LET g == Gcd(Abs(n), d)
         IN  [t |-> "num", k |-> k, n |-> n \div g, d |-> d \div g, u |-> u]

Py(n, d) == Fin("py", n, d, U0)

Inf(k, s) == [t |-> "inf", k |-> k, n |-> s, d |-> 1, u |-> U0]

NaN(k) == [t |-> "nan", k |-> k, n |-> 0, d |-> 1, u |-> U0]

Complex(k) == [t |-> "complex", k |-> k, n |-> 0, d |-> 1, u |-> U0]

Exc(name) == [t |-> "exc", k |-> name, n |-> 0, d |-> 1, u |-> U0]

IsNum(a) == a.t = "num"

IsExc(a) == a.t = "exc"

IsZero(a) == a.t = "num" /\ a.n = 0

Sgn(a) == IF a.n < 0 THEN -1 ELSE IF a.n > 0 THEN 1 ELSE 0

\* the kind of the result of a binary operation: an array wins over a
\* scalar, a numpy scalar over a Python scalar
JK(k1, k2) ==
    IF k1 = "np" \/ k2 = "np" THEN "np"
    ELSE IF k1 = "ns" \/ k2 = "ns" THEN "ns"
    ELSE "py"

J(a, b) == JK(a.k, b.k)

\* a value with the kind k
WithKind(a, k) == IF IsExc(a) THEN a ELSE [a EXCEPT !.k = k]

\* a value handed to numpy and back (numpy.asarray and the result of a numpy
\* function): an array stays an array, a scalar comes back a numpy scalar
AsArray(a) == WithKind(a, IF a.k = "np" THEN "np" ELSE "ns")

Unrepresentable == CHOOSE x \in {} : TRUE

Neg(a) ==
    IF a.t = "num" THEN Fin(a.k, -a.n, a.d, a.u)
    ELSE IF a.t = "inf" THEN Inf(a.k, -a.n)
    ELSE a

Mul(a, b) ==
    IF IsExc(a) THEN a
    ELSE IF IsExc(b) THEN b
    ELSE IF a.t = "complex" \/ b.t = "complex" THEN Complex(J(a, b))
    ELSE IF a.t = "nan" \/ b.t = "nan" THEN NaN(J(a, b))
    ELSE IF a.t = "inf" \/ b.t = "inf"
         THEN IF IsZero(a) \/ IsZero(b) THEN NaN(J(a, b))
              ELSE Inf(J(a, b), Sgn(a) * Sgn(b))
    ELSE LET g1 == Gcd(Abs(a.n), b.d)
             g2 == Gcd(Abs(b.n), a.d)
         IN  IF IsZero(a) \/ IsZero(b) THEN Fin(J(a, b), 0, 1, U0)
             ELSE Fin(J(a, b), (a.n \div g1) * (b.n \div g2),
                      (a.d \div g2) * (b.d \div g1), UAdd(a.u, b.u))

\* 1 / b for a finite b # 0
Recip(b) == [b EXCEPT !.n = Sgn(b) * b.d, !.d = Abs(b.n), !.u = UScale(b.u, -1)]

\* a / b: between Python scalars a zero divisor raises, whatever the dividend
Div(a, b) ==
    IF IsExc(a) THEN a
    ELSE IF IsExc(b) THEN b
    ELSE IF IsZero(b) /\ J(a, b) = "py" THEN Exc("ZeroDivisionError")
    ELSE IF a.t = "complex" \/ b.t = "complex" THEN Complex(J(a, b))
    ELSE IF a.t = "nan" \/ b.t = "nan" THEN NaN(J(a, b))
    ELSE IF b.t = "inf"
         THEN IF a.t = "inf" THEN NaN(J(a, b)) ELSE Fin(J(a, b), 0, 1, U0)
    ELSE IF IsZero(b)
         THEN IF IsZero(a) THEN NaN(J(a, b))
              ELSE Inf(J(a, b), Sgn(a))
    ELSE IF a.t = "inf" THEN Inf(J(a, b), Sgn(a) * Sgn(b))
    ELSE Mul(a, Recip(b))

Add(a, b) ==
    IF IsExc(a) THEN a
    ELSE IF IsExc(b) THEN b
    ELSE IF a.t = "complex" \/ b.t = "complex" THEN Complex(J(a, b))
    ELSE IF a.t = "nan" \/ b.t = "nan" THEN NaN(J(a, b))
    ELSE IF a.t = "inf" /\ b.t = "inf"
         THEN IF a.n = b.n THEN Inf(J(a, b), a.n) ELSE NaN(J(a, b))
    ELSE IF a.t = "inf" THEN Inf(J(a, b), a.n)
    ELSE IF b.t = "inf" THEN Inf(J(a, b), b.n)
    ELSE IF IsZero(a) THEN [b EXCEPT !.k = J(a, b)]
    ELSE IF IsZero(b) THEN [a EXCEPT !.k = J(a, b)]
    ELSE IF a.u = b.u
         THEN LET g == Gcd(a.d, b.d)
              IN  Fin(J(a, b), a.n * (b.d \div g) + b.n * (a.d \div g),
                      (a.d \div g) * b.d, a.u)
    ELSE Unrepresentable

Sub(a, b) == Add(a, Neg(b))

\* a ** 0.5.  An array takes the square root: nan below zero, -inf included.
\* A scalar takes the power as C pow does: (-inf) ** 0.5 is inf; below zero
\* a Python scalar gives a complex number and a numpy scalar nan.
Sqrt(a) ==
    IF a.t = "inf"
    THEN IF a.n > 0 THEN a
         ELSE IF a.k = "np" THEN NaN("np")
         ELSE Inf(a.k, 1)
    ELSE IF a.t # "num" THEN a
    ELSE IF a.n < 0 THEN (IF a.k = "py" THEN Complex("py") ELSE NaN(a.k))
    ELSE Fin(a.k, IRoot(a.n, 2), IRoot(a.d, 2),
             <<a.u[1] \div 2, a.u[2] \div 2, a.u[3] \div 2>>)

\* a ** e for an integer e, the result of kind k
PowI(a, e, k) ==
    IF a.t = "nan" THEN (IF e = 0 THEN Fin(k, 1, 1, U0) ELSE NaN(k))
    ELSE IF a.t = "inf"
         THEN IF e = 0 THEN Fin(k, 1, 1, U0)
              ELSE IF e < 0 THEN Fin(k, 0, 1, U0)
              ELSE Inf(k, IF a.n < 0 /\ e % 2 = 1 THEN -1 ELSE 1)
    ELSE IF e >= 0 THEN Fin(k, IPow(a.n, e), IPow(a.d, e), UScale(a.u, e))
    ELSE IF a.n = 0
         THEN IF k = "py" THEN Exc("ZeroDivisionError") ELSE Inf(k, 1)
    ELSE Fin(k, IPow(Sgn(a) * a.d, -e), IPow(Abs(a.n), -e), UScale(a.u, e))

\* a ** b: b an integer or one half
Pow(a, b) ==
    IF IsExc(a) THEN a
    ELSE IF IsExc(b) THEN b
    ELSE IF a.t = "complex" THEN Complex(J(a, b))
    ELSE IF b.t = "num" /\ b.d = 1 THEN PowI(a, b.n, J(a, b))
    ELSE IF b.t = "num" /\ b.n = 1 /\ b.d = 2 THEN Sqrt(WithKind(a, J(a, b)))
    ELSE Unrepresentable

\* n1/d1 < n2/d2 for d1, d2 > 0, by integer parts and then the reciprocals of
\* the remainders (no product is formed)
RECURSIVE LtQ(_, _, _, _)
LtQ(n1, d1, n2, d2) ==
    LET q1 == n1 \div d1
        q2 == n2 \div d2
        r1 == n1 % d1
        r2 == n2 % d2
    IN  IF q1 # q2 THEN q1 < q2
        ELSE IF r2 = 0 THEN FALSE
        ELSE IF r1 = 0 THEN TRUE
        ELSE LtQ(d2, r2, d1, r1)

\* a < b for values of the same dimension: every comparison with nan is
\* false, -inf is below and inf above every finite value
Lt(a, b) ==
    IF a.t = "nan" \/ b.t = "nan" THEN FALSE
    ELSE IF a.t = "inf" THEN a.n < 0 /\ ~(b.t = "inf" /\ b.n < 0)
    ELSE IF b.t = "inf" THEN b.n > 0
    ELSE LtQ(a.n, a.d, b.n, b.d)

Le(a, b) == a.t # "nan" /\ b.t # "nan" /\ ~Lt(b, a)

\* a >= b and a == b of floats
Ge(a, b) == Le(b, a)

NumEq(a, b) ==
    IF a.t = "num" /\ b.t = "num" THEN a.n = b.n /\ a.d = b.d
    ELSE a.t = "inf" /\ b.t = "inf" /\ a.n = b.n

One == Py(1, 1)

Half == Py(1, 2)

\* utils.SPEED_OF_LIGHT_KM_PER_S, utils.GYR_KM_PER_S_MPC, numpy.pi
SPEED_OF_LIGHT_KM_PER_S == Fin("py", 1, 1, <<1, 0, 0>>)

GYR_KM_PER_S_MPC == Fin("py", 1, 1, <<0, 1, 0>>)

Pi == Fin("py", 1, 1, <<0, 0, 1>>)

----------------------------------------------------------------------------
(* The E(z) kernel                                                          *)

\* the radicand of efunc
efunc_arg(z, Om0, w0) ==
    LET zp1 == Add(One, z)
    IN  Add(Mul(Om0, Pow(zp1, Py(3, 1))),
            Mul(Sub(One, Om0), Pow(zp1, Mul(Py(3, 1), Add(One, w0)))))

efunc(z, Om0, w0) == Pow(efunc_arg(z, Om0, w0), Half)

\* the inputs on which efunc is exactly representable: an integer exponent
\* and a radicand that is a perfect square (or no finite number)
EExact(z, Om0, w0) ==
    /\ IsNum(z) /\ IsNum(Om0) /\ IsNum(w0) /\ z.u = U0
    /\ Mul(Py(3, 1), Add(One, w0)).d = 1
    /\ LET X == efunc_arg(z, Om0, w0)
       IN  X.t # "num" \/ X.n < 0 \/ (HasRoot(X.n, 2) /\ HasRoot(X.d, 2))

inv_efunc(z, Om0, w0) == Div(One, efunc(z, Om0, w0))

----------------------------------------------------------------------------
(* taylor.analytic_integral: the integral of (1+z')^zpower / E(z') from 0   *)
(* to z.  The engine is outside the excerpt; it is modelled by the exact    *)
(* value of the integral it approximates, on the inputs where that value is *)
(* rational: z = 0; Om0 = 0 with E = (1+z)^k, k an integer; Om0 = 1 with    *)
(* 1+z a perfect square.                                                    *)

IsInt(a) == a.t = "num" /\ a.d = 1 /\ a.u = U0

IsSquare(a) ==
    a.t = "num" /\ a.n >= 0 /\ a.u = U0 /\ HasRoot(a.n, 2) /\ HasRoot(a.d, 2)

\* k with E = (1+z)^k when Om0 = 0
EExponent(w0) == Mul(Py(3, 2), Add(One, w0))

AIExact(z, Om0, w0, zpower) ==
    /\ IsNum(z) /\ IsNum(Om0) /\ IsNum(w0) /\ z.u = U0
    /\ Lt(Py(-1, 1), z)
    /\ \/ IsZero(z)
       \/ IsZero(Om0) /\ IsInt(EExponent(w0)) /\ zpower - EExponent(w0).n + 1 # 0
       \/ Om0 = [One EXCEPT !.k = Om0.k] /\ IsSquare(Add(One, z))

analytic_integral(z, Om0, w0, zpower) ==
    LET zp1 == Add(One, z)
    IN  IF IsExc(z) THEN z
        ELSE IF IsZero(z) THEN AsArray(Fin(JK(z.k, JK(Om0.k, w0.k)), 0, 1, U0))
        ELSE IF IsZero(Om0)
        THEN LET m == zpower - EExponent(w0).n + 1
             IN  AsArray(Div(Sub(PowI(zp1, m, JK(z.k, JK(Om0.k, w0.k))), One), Py(m, 1)))
        ELSE IF Om0 = [One EXCEPT !.k = Om0.k]
        THEN LET s == Sqrt(zp1)
                 m == 2 * zpower - 1
             IN  AsArray(Div(Mul(Py(2, 1), Sub(PowI(s, m, JK(z.k, JK(Om0.k, w0.k))), One)),
                             Py(m, 1)))
        ELSE Unrepresentable

----------------------------------------------------------------------------
(* The distance / time / volume formulas                                    *)

hubble_distance(H0) == Div(SPEED_OF_LIGHT_KM_PER_S, H0)

hubble_time(H0) == Div(GYR_KM_PER_S_MPC, H0)

\* the keyword parameters inv_efunc accepts
inv_efunc_params == {"z", "Om0", "w0"}

\* a call of inv_efunc by keyword: a keyword it does not accept is a TypeError
inv_efunc_kw(kw) ==
    IF DOMAIN kw \subseteq inv_efunc_params
    THEN inv_efunc(kw.z, kw.Om0, kw.w0)
    ELSE Exc("TypeError")

hubble_parameter(z, H0, Om0, w0) ==
    Mul(hubble_distance(H0),
        inv_efunc_kw([z |-> z, H0 |-> H0, Om0 |-> Om0, w0 |-> w0]))

comoving_distance(z, H0, Om0, w0) ==
    Mul(analytic_integral(z, Om0, w0, 0), hubble_distance(H0))

lookback_time(z, H0, Om0, w0) ==
    Mul(analytic_integral(z, Om0, w0, -1), hubble_time(H0))

absorption_distance(z, Om0, w0) == analytic_integral(z, Om0, w0, 2)

luminosity_distance(z, H0, Om0, w0) ==
    Mul(Add(One, z), comoving_distance(z, H0, Om0, w0))

dDLdz(z, H0, Om0, w0) ==
    LET dC == comoving_distance(z, H0, Om0, w0)
        Ez_i == inv_efunc(z, Om0, w0)
        D_H == hubble_distance(H0)
    IN  Add(dC, Mul(Mul(Add(One, z), D_H), Ez_i))

differential_comoving_volume(z, H0, Om0, w0) ==
    LET dC == comoving_distance(z, H0, Om0, w0)
        Ez_i == inv_efunc(z, Om0, w0)
        D_H == hubble_distance(H0)
    IN  Mul(Mul(Pow(dC, Py(2, 1)), D_H), Ez_i)

comoving_volume(z, H0, Om0, w0) ==
    Mul(Mul(Div(Py(4, 1), Py(3, 1)), Pi),
        Pow(comoving_distance(z, H0, Om0, w0), Py(3, 1)))

----------------------------------------------------------------------------
(* Redshift inversion                                                       *)

\* xp.logspace(xp.log10(zmin), xp.log10(zmax), num) for 0 < zmin <= zmax:
\* point i is 10 ** (log10(zmin) + (i - 1) * step), that is
\* zmin * q ** ((i - 1) / (num - 1)) with q = zmax / zmin; the first point is
\* zmin and the last zmax.  The powers of q computed are those that are
\* exact whatever q is, the powers 0 and 1, and the powers of q = 1; every
\* other power is an irrational number.
logspace_log10(zmin, zmax, num) ==
    LET q == Div(zmax, zmin)
        qpow(n) == IF n = 0 \/ NumEq(q, One) THEN WithKind(One, q.k)
                   ELSE IF n = num - 1 THEN q
                   ELSE Unrepresentable
    IN  [i \in 1..num |-> WithKind(Mul(zmin, qpow(i - 1)), "np")]

LINEAR_SEARCH_CUTOFF == 4

LIKELY_IN_CACHE_SIZE == 8

\* the bisection loop of binary_search_with_guess; arr is indexed from 0 in
\* the C code, hence arr[i + 1]
RECURSIVE Bisect(_, _, _, _)
Bisect(key, arr, imin, imax) ==
    IF imin < imax
    THEN LET imid == imin + ((imax - imin) \div 2)
         IN  IF Ge(key, arr[imid + 1])
             THEN Bisect(key, arr, imid + 1, imax)
             ELSE Bisect(key, arr, imin, imid)
    ELSE imin - 1

RECURSIVE LinearSearch(_, _, _, _)
LinearSearch(key, arr, len, i) ==
    IF i < len /\ Ge(key, arr[i + 1])
    THEN LinearSearch(key, arr, len, i + 1)
    ELSE i - 1

\* numpy's binary_search_with_guess: -1 below arr[0], len above arr[len-1],
\* else an index j found by bisection, which assumes arr increasing
binary_search_with_guess(key, arr, len, guess0) ==
    IF Lt(arr[len], key) THEN len
    ELSE IF Lt(key, arr[1]) THEN -1
    ELSE IF len <= LINEAR_SEARCH_CUTOFF THEN LinearSearch(key, arr, len, 1)
    ELSE LET g1 == IF guess0 > len - 3 THEN len - 3 ELSE guess0
             guess == IF g1 < 1 THEN 1 ELSE g1
         IN  IF Lt(key, arr[guess + 1])
             THEN IF Lt(key, arr[guess])
                  THEN Bisect(key, arr,
                              IF guess > LIKELY_IN_CACHE_SIZE
                                 /\ Ge(key, arr[guess - LIKELY_IN_CACHE_SIZE + 1])
                              THEN guess - LIKELY_IN_CACHE_SIZE ELSE 0,
                              guess - 1)
                  ELSE guess - 1
             ELSE IF Lt(key, arr[guess + 2]) THEN guess
             ELSE IF Lt(key, arr[guess + 3]) THEN guess + 1
             ELSE Bisect(key, arr, guess + 2,
                         IF guess < len - LIKELY_IN_CACHE_SIZE - 1
                            /\ Lt(key, arr[guess + LIKELY_IN_CACHE_SIZE + 1])
                         THEN guess + LIKELY_IN_CACHE_SIZE ELSE len)

\* arr_interp between the points (x0, y0) and (x1, y1): a nan result is
\* computed again from the other end of the segment
interp_segment(x, x0, x1, y0, y1) ==
    LET slope == Div(Sub(y1, y0), Sub(x1, x0))
        r1 == Add(Mul(slope, Sub(x, x0)), y0)
        r2 == Add(Mul(slope, Sub(x, x1)), y1)
    IN  IF r1.t # "nan" THEN r1
        ELSE IF r2.t = "nan" /\ NumEq(y0, y1) THEN y0
        ELSE r2

\* an interpolation that returns right below the first x-coordinate and
\* left above the last
interp_swapping_ends(x, xs, fs, left, right) ==
    IF x.t = "nan" THEN AsArray(x)
    ELSE LET len == Cardinality(DOMAIN xs)
             j == binary_search_with_guess(x, xs, len, 0)
         IN  WithKind(IF j = -1 THEN right
                      ELSE IF j = len THEN left
                      ELSE IF j = len - 1 THEN fs[j + 1]
                      ELSE IF NumEq(xs[j + 1], x) THEN fs[j + 1]
                      ELSE interp_segment(x, xs[j + 1], xs[j + 2], fs[j + 1], fs[j + 2]),
                      AsArray(x).k)

\* xp.interp(x, xs, fs, left, right, period=None) for one x (numpy's
\* arr_interp: only a nan x is returned as it is).  The result is an array
\* for an array x and a numpy scalar for a scalar x.
interp(x, xs, fs, left, right) ==
    IF x.t = "nan" THEN AsArray(x)
    ELSE LET len == Cardinality(DOMAIN xs)
             j == binary_search_with_guess(x, xs, len, 0)
         IN  WithKind(IF j = -1 THEN left
                      ELSE IF j = len THEN right
                      ELSE IF j = len - 1 THEN fs[j + 1]
                      ELSE IF NumEq(xs[j + 1], x) THEN fs[j + 1]
                      ELSE interp_segment(x, xs[j + 1], xs[j + 2], fs[j + 1], fs[j + 2]),
                      AsArray(x).k)

\* the callables handed to z_at_value, by name: two of the module and five
\* of the client (increasing, decreasing, decreasing, not monotonic, and
\* z * (z - 4) / (z - 4), which is nan at z = 4)
ModuleForward == {"luminosity_distance", "comoving_distance"}

ClientForward == {"square", "negate", "reciprocal", "vee", "hole"}

ForwardAt(name, z, kw) ==
    CASE name = "luminosity_distance" -> luminosity_distance(z, kw.H0, kw.Om0, kw.w0)
      [] name = "comoving_distance" -> comoving_distance(z, kw.H0, kw.Om0, kw.w0)
      [] name = "square" -> Mul(z, z)
      [] name = "negate" -> Neg(z)
      [] name = "reciprocal" -> Div(One, z)
      [] name = "vee" -> Mul(Sub(z, Py(4, 1)), Sub(z, Py(4, 1)))
      [] name = "hole" -> Div(Mul(z, Sub(z, Py(4, 1))), Sub(z, Py(4, 1)))

\* func(zs, **kwargs) on the array zs, elementwise
Forward(name, zs, kw) == [i \in DOMAIN zs |-> ForwardAt(name, zs[i], kw)]

\* the call of xp.interp with its arguments evaluated: an exception raised
\* by func(zs, **kwargs) leaves z_at_value before xp.interp is entered.
\* func(zs, **kwargs) is one computation on the whole array, in which only
\* an operation on scalars raises, for every element alike.
interp_call(x, xs, fs, left, right) ==
    IF IsExc(xs[1]) THEN xs[1]
    ELSE interp(x, xs, fs, left, right)

z_at_value(func, fval, zmin, zmax, kwargs) ==
    LET zs == logspace_log10(zmin, zmax, 1000)
    IN  interp_call(AsArray(fval), Forward(func, zs, kwargs), zs, zmin, zmax)

----------------------------------------------------------------------------
(* Frame conversion                                                         *)

\* the value of a function whose statements computed a, b, c in this order:
\* the first exception among them, and otherwise the tuple it returns
Return3(a, b, c, out) ==
    IF IsExc(a) THEN a
    ELSE IF IsExc(b) THEN b
    ELSE IF IsExc(c) THEN c
    ELSE out

\* an exception raised on the way leaves the function in place of the tuple
detector_to_source_frame(m1z, m2z, dL, H0, Om0, w0, zmin, zmax) ==
    LET z == z_at_value("luminosity_distance", dL, zmin, zmax,
                        [H0 |-> H0, Om0 |-> Om0, w0 |-> w0])
        m1 == Div(m1z, Add(One, z))
        m2 == Div(m2z, Add(One, z))
    IN  Return3(z, m1, m2, <<m1, m2, z>>)

source_to_detector_frame(m1, m2, z, H0, Om0, w0) ==
    LET dL == luminosity_distance(z, H0, Om0, w0)
        m1z == Mul(m1, Add(One, z))
        m2z == Mul(m2, Add(One, z))
    IN  Return3(dL, m1z, m2z, <<m1z, m2z, dL>>)

----------------------------------------------------------------------------
(* The configuration records                                                *)
(*                                                                          *)
(* A record is [cls, H0, Om0, w0, zmin, zmax, name, _meta]; _meta is a      *)
(* reference into the heap dicts of mappings, None the reference 0.  A      *)
(* bound operation is written over rd, the values its attribute reads       *)
(* return in program order (Reads names the attributes), so that the same   *)
(* definition serves the call run alone and the call run step by step       *)
(* among other threads.                                                     *)

None == 0

\* a setter whose empty mapping is one object shared by all records
meta_setter_shared_default(self, meta, fresh) ==
    [self EXCEPT !._meta = IF meta = None THEN 1 ELSE meta]

\* FlatwCDM.meta (setter): None becomes a new empty mapping, fresh its reference
meta_setter(self, meta, fresh) ==
    [self EXCEPT !._meta = IF meta = None THEN fresh ELSE meta]

\* FlatwCDM.__init__
FlatwCDM_init(H0, Om0, w0, zmin, zmax, name, meta, fresh) ==
    meta_setter([cls |-> "FlatwCDM", H0 |-> H0, Om0 |-> Om0, w0 |-> w0,
                 zmin |-> zmin, zmax |-> zmax, name |-> name, _meta |-> None],
                meta, fresh)

\* a FlatLambdaCDM that hands w0 = 1 to the constructor of FlatwCDM
FlatLambdaCDM_init_w0_sign(H0, Om0, zmin, zmax, name, meta, fresh) ==
    [FlatwCDM_init(H0, Om0, Py(1, 1), zmin, zmax, name, meta, fresh)
        EXCEPT !.cls = "FlatLambdaCDM"]

\* FlatLambdaCDM.__init__: super().__init__ with w0 = -1
FlatLambdaCDM_init(H0, Om0, zmin, zmax, name, meta, fresh) ==
    [FlatwCDM_init(H0, Om0, Py(-1, 1), zmin, zmax, name, meta, fresh)
        EXCEPT !.cls = "FlatLambdaCDM"]

\* the defaults of the keyword parameters
Default_zmin == Py(1, 10000)

Default_zmax == Py(100, 1)

Default_age_zmax == Py(100000, 1)

\* the attributes the bound operations read, in program order
KwargsReads == <<"H0", "Om0", "w0">>

Reads(name) ==
    CASE name = "hubble_distance" -> <<"H0">>
      [] name = "dLdH" -> KwargsReads \o <<"H0">>
      [] name = "detector_to_source_frame" -> KwargsReads \o <<"zmin", "zmax">>
      [] name \in {"efunc", "inv_efunc", "absorption_distance"} -> <<"Om0", "w0">>
      [] name = "age" -> KwargsReads \o KwargsReads
      [] name = "meta" -> <<"_meta">>
      [] OTHER -> KwargsReads

\* self.name = value: the class defines no __setattr__ and no __slots__, so
\* the assignment stores the value in the instance
setattr(self, name, value) == [self EXCEPT ![name] = value]

\* FlatwCDM._kwargs, its three reads starting at position i of rd
_kwargs(rd, i) == [H0 |-> rd[i], Om0 |-> rd[i + 1], w0 |-> rd[i + 2]]

FlatwCDM_hubble_distance(rd) == hubble_distance(rd[1])

FlatwCDM_luminosity_distance(rd, z) ==
    LET kw == _kwargs(rd, 1) IN luminosity_distance(z, kw.H0, kw.Om0, kw.w0)

FlatwCDM_dLdH(rd, z) ==
    Div(FlatwCDM_luminosity_distance(rd, z), FlatwCDM_hubble_distance(<<rd[4]>>))

FlatwCDM_dDLdz(rd, z) ==
    LET kw == _kwargs(rd, 1) IN dDLdz(z, kw.H0, kw.Om0, kw.w0)

FlatwCDM_differential_comoving_volume(rd, z) ==
    LET kw == _kwargs(rd, 1) IN differential_comoving_volume(z, kw.H0, kw.Om0, kw.w0)

FlatwCDM_detector_to_source_frame(rd, m1z, m2z, dL) ==
    LET kw == _kwargs(rd, 1)
    IN  detector_to_source_frame(m1z, m2z, dL, kw.H0, kw.Om0, kw.w0, rd[4], rd[5])

FlatwCDM_source_to_detector_frame(rd, m1, m2, z) ==
    LET kw == _kwargs(rd, 1) IN source_to_detector_frame(m1, m2, z, kw.H0, kw.Om0, kw.w0)

\* an efunc that ignores the w0 of the record
FlatwCDM_efunc_default_w0(rd, z) == efunc(z, rd[1], Py(-1, 1))

FlatwCDM_efunc(rd, z) == efunc(z, rd[1], rd[2])

FlatwCDM_inv_efunc(rd, z) == inv_efunc(z, rd[1], rd[2])

FlatwCDM_H(rd, z) ==
    LET kw == _kwargs(rd, 1) IN hubble_parameter(z, kw.H0, kw.Om0, kw.w0)

FlatwCDM_comoving_distance(rd, z) ==
    LET kw == _kwargs(rd, 1) IN comoving_distance(z, kw.H0, kw.Om0, kw.w0)

FlatwCDM_comoving_volume(rd, z) ==
    LET kw == _kwargs(rd, 1) IN comoving_volume(z, kw.H0, kw.Om0, kw.w0)

FlatwCDM_lookback_time(rd, z) ==
    LET kw == _kwargs(rd, 1) IN lookback_time(z, kw.H0, kw.Om0, kw.w0)

FlatwCDM_absorption_distance(rd, z) == absorption_distance(z, rd[1], rd[2])

FlatwCDM_age(rd, z, zmax) ==
    Sub(FlatwCDM_lookback_time(SubSeq(rd, 1, 3), zmax),
        FlatwCDM_lookback_time(SubSeq(rd, 4, 6), z))

\* the methods class FlatwCDM defines (FlatLambdaCDM adds none but __init__)
FlatwCDM_methods ==
    {"luminosity_distance", "dLdH", "dDLdz",
     "differential_comoving_volume", "detector_to_source_frame",
     "source_to_detector_frame", "efunc", "inv_efunc", "H", "comoving_distance",
     "comoving_volume", "lookback_time", "absorption_distance", "age"}

\* its properties: read without a call
FlatwCDM_properties == {"_kwargs", "meta", "hubble_distance"}

\* the attributes __init__ stores in the instance: the public ones, and _meta
\* by way of the meta setter
PublicAttributes == {"H0", "Om0", "w0", "zmin", "zmax", "name"}

InstanceAttributes == PublicAttributes \cup {"_meta"}

\* obj.name for a property, given the values rd its attribute reads returned
property_get(name, rd) ==
    CASE name = "hubble_distance" -> FlatwCDM_hubble_distance(rd)
      [] name = "_kwargs" -> _kwargs(rd, 1)
      [] name = "meta" -> rd[1]

\* obj.name(*args) for a method, given the values rd its attribute reads
\* returned
bound(name, rd, args) ==
    CASE name = "luminosity_distance" -> FlatwCDM_luminosity_distance(rd, args[1])
      [] name = "dLdH" -> FlatwCDM_dLdH(rd, args[1])
      [] name = "dDLdz" -> FlatwCDM_dDLdz(rd, args[1])
      [] name = "differential_comoving_volume" ->
            FlatwCDM_differential_comoving_volume(rd, args[1])
      [] name = "detector_to_source_frame" ->
            FlatwCDM_detector_to_source_frame(rd, args[1], args[2], args[3])
      [] name = "source_to_detector_frame" ->
            FlatwCDM_source_to_detector_frame(rd, args[1], args[2], args[3])
      [] name = "efunc" -> FlatwCDM_efunc(rd, args[1])
      [] name = "inv_efunc" -> FlatwCDM_inv_efunc(rd, args[1])
      [] name = "H" -> FlatwCDM_H(rd, args[1])
      [] name = "comoving_distance" -> FlatwCDM_comoving_distance(rd, args[1])
      [] name = "comoving_volume" -> FlatwCDM_comoving_volume(rd, args[1])
      [] name = "lookback_time" -> FlatwCDM_lookback_time(rd, args[1])
      [] name = "absorption_distance" -> FlatwCDM_absorption_distance(rd, args[1])
      [] name = "age" -> FlatwCDM_age(rd, args[1], args[2])

\* the values the reads of an operation return on a record that nothing changes
ReadSeq(self, names) == [i \in 1..Len(names) |-> self[names[i]]]

\* the eight presets of the module, in the order the module creates them
PresetArgs ==
    << [name |-> "Planck13", H0 |-> Py(6777, 100), Om0 |-> Py(30712, 100000)],
       [name |-> "Planck15", H0 |-> Py(6774, 100), Om0 |-> Py(3075, 10000)],
       [name |-> "Planck18", H0 |-> Py(6766, 100), Om0 |-> Py(30966, 100000)],
       [name |-> "WMAP1", H0 |-> Py(720, 10), Om0 |-> Py(257, 1000)],
       [name |-> "WMAP3", H0 |-> Py(701, 10), Om0 |-> Py(276, 1000)],
       [name |-> "WMAP5", H0 |-> Py(702, 10), Om0 |-> Py(277, 1000)],
       [name |-> "WMAP7", H0 |-> Py(704, 10), Om0 |-> Py(272, 1000)],
       [name |-> "WMAP9", H0 |-> Py(6932, 100), Om0 |-> Py(2865, 10000)] >>

NPresets == Len(PresetArgs)

\* what a constructor was given (kept beside the record, not part of it)
CtorArgs(cls, H0, Om0, w0, zmin, zmax, name, meta) ==
    [cls |-> cls, H0 |-> H0, Om0 |-> Om0, w0 |-> w0, zmin |-> zmin,
     zmax |-> zmax, name |-> name, meta |-> meta]

Preset(i) ==
    FlatLambdaCDM_init(PresetArgs[i].H0, PresetArgs[i].Om0, Default_zmin,
                       Default_zmax, PresetArgs[i].name, None, i)

\* the lookup table: the name of a preset -> the preset (inst its record),
\* the name of a class -> the class itself (inst 0: no record)
available ==
    [n \in {PresetArgs[i].name : i \in 1..NPresets} \cup {"FlatLambdaCDM", "FlatwCDM"} |->
        IF n \in {"FlatLambdaCDM", "FlatwCDM"}
        THEN [cls |-> n, inst |-> 0]
        ELSE [cls |-> "FlatLambdaCDM",
              inst |-> CHOOSE i \in 1..NPresets : PresetArgs[i].name = n]]

----------------------------------------------------------------------------
(* State                                                                    *)
(*   recs   the configuration records, the presets first                    *)
(*   ctor   what each record's constructor was given                        *)
(*   dicts  the heap of mappings a meta can refer to                        *)
(*   nset   the number of meta assignments made after construction          *)
(*   asg    the assignments made to public attributes, in order: <<record,   *)
(*          attribute, value>>                                               *)
(*   thr    the threads calling bound operations step by step (rec is the   *)
(*          record as it was when the call was made)                        *)
(*   call   the last completed call: function, receiver, arguments, result  *)

Threads == {"t1", "t2"}

\* no record: the receiver of a call of a module-level function
NoRecord == [cls |-> "module"]

Idle == [pc |-> "idle", op |-> "", self |-> 0, rec |-> NoRecord, args |-> <<>>,
         rd |-> <<>>, ret |-> <<>>]

NoCall == [fn |-> "", self |-> 0, args |-> <<>>, ret |-> <<>>, src |-> <<>>]

\* a mapping the client owns when the module has been loaded
UserDict == NPresets + 1

ModuleLoaded ==
    /\ recs = [i \in 1..NPresets |-> Preset(i)]
    /\ ctor = [i \in 1..NPresets |->
                 CtorArgs("FlatLambdaCDM", PresetArgs[i].H0, PresetArgs[i].Om0, Py(-1, 1),
                          Default_zmin, Default_zmax, PresetArgs[i].name, None)]
    /\ dicts = [i \in 1..(NPresets + 1) |-> IF i = UserDict THEN {"cite"} ELSE {}]
    /\ nset = 0
    /\ asg = <<>>
    /\ thr = [t \in Threads |-> Idle]
    /\ call = NoCall

\* a call returns (it is made when the client has taken the result of the one
\* before: call.fn = NoCall.fn)
Returned(fn, self, args, ret) ==
    call' = [fn |-> fn, self |-> self, args |-> args, ret |-> ret, src |-> <<>>]

\* the client takes the result
Take ==
    /\ call.fn # NoCall.fn
    /\ call' = NoCall
    /\ UNCHANGED <<recs, ctor, dicts, nset, asg, thr>>

----------------------------------------------------------------------------
(* Calls of the module-level functions                                      *)

KindIn == {"py", "ns", "np"}

V(k, n, d) == Fin(k, n, d, U0)

ZIn == {V(k, n, 1) : k \in KindIn, n \in {-1, 0, 1, 3}}

H0In == {Py(70, 1), Py(50, 1)}

Om0In == {Py(0, 1), Py(1, 1), Py(3, 4), Py(2, 1)}

W0In == {Py(-1, 1), Py(-5, 3), Py(-1, 3)}

MassIn == {Py(5, 1), Py(4, 1)}

Do_efunc ==
    /\ call.fn = NoCall.fn
    /\ \E z \in ZIn, Om0 \in Om0In, w0 \in W0In :
        /\ EExact(z, Om0, w0)
        /\ Returned("efunc", 0, <<z, Om0, w0>>, efunc(z, Om0, w0))
        /\ UNCHANGED <<recs, ctor, dicts, nset, asg, thr>>

Do_inv_efunc ==
    /\ call.fn = NoCall.fn
    /\ \E z \in ZIn, Om0 \in Om0In, w0 \in W0In :
        /\ EExact(z, Om0, w0)
        /\ Returned("inv_efunc", 0, <<z, Om0, w0>>, inv_efunc(z, Om0, w0))
        /\ UNCHANGED <<recs, ctor, dicts, nset, asg, thr>>

Do_hubble_distance ==
    /\ call.fn = NoCall.fn
    /\ \E H0 \in H0In :
        /\ Returned("hubble_distance", 0, <<H0>>, hubble_distance(H0))
        /\ UNCHANGED <<recs, ctor, dicts, nset, asg, thr>>

Do_hubble_time ==
    /\ call.fn = NoCall.fn
    /\ \E H0 \in H0In :
        /\ Returned("hubble_time", 0, <<H0>>, hubble_time(H0))
        /\ UNCHANGED <<recs, ctor, dicts, nset, asg, thr>>

Do_hubble_parameter ==
    /\ call.fn = NoCall.fn
    /\ \E z \in ZIn, H0 \in H0In, Om0 \in Om0In, w0 \in W0In :
        /\ Returned("hubble_parameter", 0, <<z, H0, Om0, w0>>,
                    hubble_parameter(z, H0, Om0, w0))
        /\ UNCHANGED <<recs, ctor, dicts, nset, asg, thr>>

Do_comoving_distance ==
    /\ call.fn = NoCall.fn
    /\ \E z \in ZIn, H0 \in H0In, Om0 \in Om0In, w0 \in W0In :
        /\ AIExact(z, Om0, w0, 0)
        /\ Returned("comoving_distance", 0, <<z, H0, Om0, w0>>,
                    comoving_distance(z, H0, Om0, w0))
        /\ UNCHANGED <<recs, ctor, dicts, nset, asg, thr>>

Do_lookback_time ==
    /\ call.fn = NoCall.fn
    /\ \E z \in ZIn, H0 \in H0In, Om0 \in Om0In, w0 \in W0In :
        /\ AIExact(z, Om0, w0, -1)
        /\ Returned("lookback_time", 0, <<z, H0, Om0, w0>>,
                    lookback_time(z, H0, Om0, w0))
        /\ UNCHANGED <<recs, ctor, dicts, nset, asg, thr>>

Do_absorption_distance ==
    /\ call.fn = NoCall.fn
    /\ \E z \in ZIn, Om0 \in Om0In, w0 \in W0In :
        /\ AIExact(z, Om0, w0, 2)
        /\ Returned("absorption_distance", 0, <<z, Om0, w0>>,
                    absorption_distance(z, Om0, w0))
        /\ UNCHANGED <<recs, ctor, dicts, nset, asg, thr>>

Do_luminosity_distance ==
    /\ call.fn = NoCall.fn
    /\ \E z \in ZIn, H0 \in H0In, Om0 \in Om0In, w0 \in W0In :
        /\ AIExact(z, Om0, w0, 0)
        /\ Returned("luminosity_distance", 0, <<z, H0, Om0, w0>>,
                    luminosity_distance(z, H0, Om0, w0))
        /\ UNCHANGED <<recs, ctor, dicts, nset, asg, thr>>

Do_dDLdz ==
    /\ call.fn = NoCall.fn
    /\ \E z \in ZIn, H0 \in H0In, Om0 \in Om0In, w0 \in W0In :
        /\ AIExact(z, Om0, w0, 0) /\ EExact(z, Om0, w0)
        /\ Returned("dDLdz", 0, <<z, H0, Om0, w0>>, dDLdz(z, H0, Om0, w0))
        /\ UNCHANGED <<recs, ctor, dicts, nset, asg, thr>>

Do_differential_comoving_volume ==
    /\ call.fn = NoCall.fn
    /\ \E z \in ZIn, H0 \in H0In, Om0 \in Om0In, w0 \in W0In :
        /\ AIExact(z, Om0, w0, 0) /\ EExact(z, Om0, w0)
        /\ Returned("differential_comoving_volume", 0, <<z, H0, Om0, w0>>,
                    differential_comoving_volume(z, H0, Om0, w0))
        /\ UNCHANGED <<recs, ctor, dicts, nset, asg, thr>>

Do_comoving_volume ==
    /\ call.fn = NoCall.fn
    /\ \E z \in ZIn, H0 \in H0In, Om0 \in Om0In, w0 \in W0In :
        /\ AIExact(z, Om0, w0, 0)
        /\ Returned("comoving_volume", 0, <<z, H0, Om0, w0>>,
                    comoving_volume(z, H0, Om0, w0))
        /\ UNCHANGED <<recs, ctor, dicts, nset, asg, thr>>

----------------------------------------------------------------------------
(* Calls of z_at_value and of the frame conversions                         *)

\* the ranges [zmin, zmax]: two with a grid of 1000 different redshifts and
\* two with zmin = zmax, whose grid is 1000 times the same redshift
ZRangeIn ==
    { <<Py(1, 1), Py(16, 1)>>, <<Py(2, 1), Py(162, 1)>>,
      <<Py(4, 1), Py(4, 1)>>, <<Py(3, 1), Py(3, 1)>> }

\* redshifts at the ends, inside, below and above a range
ProbeZ(zmin, zmax) ==
    {WithKind(z, "np") :
        z \in {zmin, zmax, Div(Add(zmin, zmax), Py(2, 1)),
               Div(zmin, Py(2, 1)), Mul(zmax, Py(2, 1))}}

\* the calls of z_at_value whose result the grid points zmin and zmax and the
\* function's values there decide: on a grid of one redshift, for a nan
\* target, when func raises, and when xp.interp finds the target above the
\* last or below the first x-coordinate.  Another call compares the target
\* with the function's values at grid points between the ends, which are
\* irrational.
EndsDecide(name, fval, zmin, zmax, kw) ==
    LET lo == ForwardAt(name, WithKind(zmin, "np"), kw)
        hi == ForwardAt(name, WithKind(zmax, "np"), kw)
    IN  \/ zmin = zmax
        \/ fval.t = "nan"
        \/ IsExc(lo)
        \/ Lt(hi, fval)
        \/ Lt(fval, lo)

\* H0 = 0 makes the module-level distances raise ZeroDivisionError
FrameH0In == {Py(70, 1), Py(0, 1)}

\* the keyword arguments of the forward function: H0 = nan makes every value
\* of a module-level distance nan, the numpy scalar 0 makes it inf
KwIn(name) ==
    IF name \in ModuleForward
    THEN {[H0 |-> H0, Om0 |-> Py(0, 1), w0 |-> w0] :
             H0 \in FrameH0In \cup {NaN("py"), V("ns", 0, 1)},
             w0 \in {Py(-1, 1), Py(-5, 3)}}
    ELSE {<<>>}

\* targets: the function's values at the probes, the infinities and nan
FvalIn(name, zmin, zmax, kw) ==
    {v \in {ForwardAt(name, zp, kw) : zp \in ProbeZ(zmin, zmax)} : ~IsExc(v)}
        \cup {Inf("py", 1), Inf("py", -1), NaN("py")}

Do_z_at_value ==
    /\ call.fn = NoCall.fn
    /\ \E name \in ModuleForward \cup ClientForward, rg \in ZRangeIn :
      \E kw \in KwIn(name) :
        \E fval \in FvalIn(name, rg[1], rg[2], kw) :
            /\ EndsDecide(name, fval, rg[1], rg[2], kw)
            /\ Returned("z_at_value", 0, <<name, fval, rg[1], rg[2], kw>>,
                        z_at_value(name, fval, rg[1], rg[2], kw))
            /\ UNCHANGED <<recs, ctor, dicts, nset, asg, thr>>

FrameZIn == UNION {ProbeZ(rg[1], rg[2]) : rg \in ZRangeIn}

Do_source_to_detector_frame ==
    /\ call.fn = NoCall.fn
    /\ \E m1 \in MassIn, m2 \in MassIn, z \in FrameZIn, H0 \in FrameH0In,
       w0 \in {Py(-1, 1), Py(-5, 3)} :
        /\ m2.n <= m1.n
        /\ Returned("source_to_detector_frame", 0, <<m1, m2, z, H0, Py(0, 1), w0>>,
                    source_to_detector_frame(m1, m2, z, H0, Py(0, 1), w0))
        /\ UNCHANGED <<recs, ctor, dicts, nset, asg, thr>>

\* detector_to_source_frame on what the last source_to_detector_frame
\* returned, when it returned
Do_detector_to_source_frame ==
    \E rg \in ZRangeIn :
        /\ call.fn = "source_to_detector_frame"
        /\ ~IsExc(luminosity_distance(call.args[3], call.args[4], call.args[5],
                                      call.args[6]))
        /\ EndsDecide("luminosity_distance", call.ret[3], rg[1], rg[2],
                      [H0 |-> call.args[4], Om0 |-> call.args[5], w0 |-> call.args[6]])
        /\ LET a == call.args
               r == call.ret
           IN  call' = [fn |-> "detector_to_source_frame", self |-> 0,
                        args |-> <<r[1], r[2], r[3], a[4], a[5], a[6], rg[1], rg[2]>>,
                        ret |-> detector_to_source_frame(r[1], r[2], r[3], a[4], a[5],
                                                         a[6], rg[1], rg[2]),
                        src |-> a]
        /\ UNCHANGED <<recs, ctor, dicts, nset, asg, thr>>

NextFn ==
    \/ Do_efunc
    \/ Do_inv_efunc
    \/ Do_hubble_distance
    \/ Do_hubble_time
    \/ Do_hubble_parameter
    \/ Do_comoving_distance
    \/ Do_lookback_time
    \/ Do_absorption_distance
    \/ Do_luminosity_distance
    \/ Do_dDLdz
    \/ Do_differential_comoving_volume
    \/ Do_comoving_volume
    \/ Do_z_at_value
    \/ Do_source_to_detector_frame
    \/ Do_detector_to_source_frame
    \/ Take

SpecFn == ModuleLoaded /\ [][NextFn]_vars

----------------------------------------------------------------------------
(* The records: construction, meta, and calls of the bound operations       *)

\* the records a client may construct beside the presets, the mappings the
\* heap may hold, and the assignments (to meta and to public attributes) a
\* behaviour may make
MaxUser == 1

MaxDicts == 11

MaxSets == 1

UserH0In == {Py(70, 1)}

UserOm0In == {Py(0, 1), Py(1, 1)}

UserW0In == {Py(-1, 1), Py(-5, 3)}

UserRangeIn == {<<Py(1, 1), Py(16, 1)>>}

UserNameIn == {"mine"}

MetaIn == {None, UserDict}

\* the heap after a meta assignment: None allocates a new empty mapping
Alloc(meta) == IF meta = None THEN Append(dicts, {}) ELSE dicts

CanAlloc(meta) == meta # None \/ Len(dicts) < MaxDicts

NewFlatwCDM ==
    \E H0 \in UserH0In, Om0 \in UserOm0In, w0 \in UserW0In, rg \in UserRangeIn,
       name \in UserNameIn, meta \in MetaIn :
        /\ call.fn = NoCall.fn
        /\ Len(recs) < NPresets + MaxUser
        /\ CanAlloc(meta)
        /\ recs' = Append(recs, FlatwCDM_init(H0, Om0, w0, rg[1], rg[2], name, meta,
                                              Len(dicts) + 1))
        /\ ctor' = Append(ctor, CtorArgs("FlatwCDM", H0, Om0, w0, rg[1], rg[2], name, meta))
        /\ dicts' = Alloc(meta)
        /\ UNCHANGED <<nset, asg, thr, call>>

NewFlatLambdaCDM ==
    \E H0 \in UserH0In, Om0 \in UserOm0In, rg \in UserRangeIn,
       name \in UserNameIn, meta \in MetaIn :
        /\ call.fn = NoCall.fn
        /\ Len(recs) < NPresets + MaxUser
        /\ CanAlloc(meta)
        /\ recs' = Append(recs, FlatLambdaCDM_init(H0, Om0, rg[1], rg[2], name, meta,
                                                   Len(dicts) + 1))
        /\ ctor' = Append(ctor, CtorArgs("FlatLambdaCDM", H0, Om0, Py(-1, 1), rg[1], rg[2],
                                         name, meta))
        /\ dicts' = Alloc(meta)
        /\ UNCHANGED <<nset, asg, thr, call>>

\* the records the client assigns to: a preset and its own record
SetSelfIn == {1, NPresets + 1}

\* obj.meta = m, m None, the client's mapping or the mapping a read of meta
\* has just returned
SetMeta ==
    /\ call.fn = NoCall.fn \/ call.fn = "meta"
    /\ nset + Len(asg) < MaxSets
    /\ \E r \in SetSelfIn \cap DOMAIN recs :
      \E m \in MetaIn \cup (IF call.fn = "meta" /\ call.self \in SetSelfIn
                            THEN {call.ret} ELSE {}) :
        /\ CanAlloc(m)
        /\ recs' = [recs EXCEPT ![r] = meta_setter(@, m, Len(dicts) + 1)]
        /\ dicts' = Alloc(m)
        /\ nset' = nset + 1
        /\ Returned("meta.setter", r, <<m>>, None)
        /\ UNCHANGED <<ctor, asg, thr>>

\* obj.name: the value of a property or of an instance attribute, the bound
\* method (its name stands for it), and AttributeError for a name that
\* neither the instance nor the class has
getattr(self, name) ==
    IF name \in FlatwCDM_properties
    THEN property_get(name, ReadSeq(self, Reads(name)))
    ELSE IF name \in InstanceAttributes THEN self[name]
    ELSE IF name \in FlatwCDM_methods THEN [method |-> name]
    ELSE Exc("AttributeError")

\* obj.name(*args): a method is called; the value of a property or of an
\* instance attribute (a number, a string, a mapping) is not callable, which
\* is a TypeError, unless reading the property has raised already
getattr_call(self, name, args) ==
    IF name \in FlatwCDM_methods
    THEN bound(name, ReadSeq(self, Reads(name)), args)
    ELSE IF name \notin FlatwCDM_properties \cup InstanceAttributes
    THEN Exc("AttributeError")
    ELSE IF name = "hubble_distance" /\ IsExc(getattr(self, name))
    THEN getattr(self, name)
    ELSE Exc("TypeError")

\* the values a client assigns to the public attributes
AttrValueIn(name) ==
    CASE name = "H0" -> {Py(50, 1)}
      [] name = "Om0" -> {Py(1, 2)}
      [] name = "w0" -> {Py(-5, 3)}
      [] name = "zmin" -> {Py(1, 16)}
      [] name = "zmax" -> {Py(81, 1)}
      [] name = "name" -> {"renamed"}

\* obj.H0 = value, and so for Om0, w0, zmin, zmax and name: plain instance
\* attributes, which nothing protects from assignment
SetAttr ==
    /\ call.fn = NoCall.fn
    /\ nset + Len(asg) < MaxSets
    /\ \E r \in SetSelfIn \cap DOMAIN recs, name \in PublicAttributes :
      \E value \in AttrValueIn(name) :
        /\ recs' = [recs EXCEPT ![r] = setattr(@, name, value)]
        /\ asg' = Append(asg, <<r, name, value>>)
        /\ Returned("__setattr__", r, <<name, value>>, None)
        /\ UNCHANGED <<ctor, dicts, nset, thr>>

\* the names a client reads without a call: the properties, the instance
\* attributes, and hubble_time, which the class does not define
GetNames == FlatwCDM_properties \cup InstanceAttributes \cup {"hubble_time"}

\* the records an attribute is read from: the properties and hubble_time
\* from every record, the instance attributes from a preset and the client's
\* own record
GetSelfIn(name) ==
    IF name \in InstanceAttributes THEN SetSelfIn ELSE 1..(NPresets + MaxUser)

\* obj.name
GetAttr ==
    /\ call.fn = NoCall.fn
    /\ \E name \in GetNames :
      \E r \in GetSelfIn(name) \cap DOMAIN recs :
        /\ Returned(name, r, <<>>, getattr(recs[r], name))
        /\ UNCHANGED <<recs, ctor, dicts, nset, asg, thr>>

\* obj.name() for a name that is no method
CallAttr ==
    /\ call.fn = NoCall.fn
    /\ \E r \in SetSelfIn \cap DOMAIN recs, name \in GetNames :
        /\ Returned("__call__", r, <<name>>, getattr_call(recs[r], name, <<>>))
        /\ UNCHANGED <<recs, ctor, dicts, nset, asg, thr>>

\* the arguments of the calls
CallZIn == {Py(0, 1), Py(3, 1)}

AgeZmaxIn == {Default_age_zmax, Py(8, 1)}

\* luminosity distances below, inside and above the range of a record
DLIn ==
    {luminosity_distance(z, Py(70, 1), Py(0, 1), Py(-1, 1)) :
        z \in {Py(1, 32), Py(3, 1), Py(96, 1)}}

ArgsIn(name) ==
    CASE name = "age" -> {<<z, zmax>> : z \in CallZIn, zmax \in AgeZmaxIn}
      [] name = "source_to_detector_frame" -> {<<Py(5, 1), Py(4, 1), z>> : z \in CallZIn}
      [] name = "detector_to_source_frame" -> {<<Py(20, 1), Py(16, 1), dL>> : dL \in DLIn}
      [] OTHER -> {<<z>> : z \in CallZIn}

\* the luminosity distances at the ends of the grid of a record are exactly
\* representable and decide the redshift of dL
GridEval(self, dL) ==
    /\ AIExact(self.zmin, self.Om0, self.w0, 0)
    /\ AIExact(self.zmax, self.Om0, self.w0, 0)
    /\ EndsDecide("luminosity_distance", dL, self.zmin, self.zmax,
                  [H0 |-> self.H0, Om0 |-> self.Om0, w0 |-> self.w0])

Call_luminosity_distance ==
    /\ call.fn = NoCall.fn
    /\ \E r \in DOMAIN recs, args \in ArgsIn("luminosity_distance") :
        /\ AIExact(args[1], recs[r].Om0, recs[r].w0, 0)
        /\ Returned("luminosity_distance", r, args,
                    FlatwCDM_luminosity_distance(ReadSeq(recs[r], Reads("luminosity_distance")), args[1]))
        /\ UNCHANGED <<recs, ctor, dicts, nset, asg, thr>>

Call_dLdH ==
    /\ call.fn = NoCall.fn
    /\ \E r \in DOMAIN recs, args \in ArgsIn("dLdH") :
        /\ AIExact(args[1], recs[r].Om0, recs[r].w0, 0)
        /\ Returned("dLdH", r, args,
                    FlatwCDM_dLdH(ReadSeq(recs[r], Reads("dLdH")), args[1]))
        /\ UNCHANGED <<recs, ctor, dicts, nset, asg, thr>>

Call_dDLdz ==
    /\ call.fn = NoCall.fn
    /\ \E r \in DOMAIN recs, args \in ArgsIn("dDLdz") :
        /\ AIExact(args[1], recs[r].Om0, recs[r].w0, 0) /\ EExact(args[1], recs[r].Om0, recs[r].w0)
        /\ Returned("dDLdz", r, args,
                    FlatwCDM_dDLdz(ReadSeq(recs[r], Reads("dDLdz")), args[1]))
        /\ UNCHANGED <<recs, ctor, dicts, nset, asg, thr>>

Call_differential_comoving_volume ==
    /\ call.fn = NoCall.fn
    /\ \E r \in DOMAIN recs, args \in ArgsIn("differential_comoving_volume") :
        /\ AIExact(args[1], recs[r].Om0, recs[r].w0, 0) /\ EExact(args[1], recs[r].Om0, recs[r].w0)
        /\ Returned("differential_comoving_volume", r, args,
                    FlatwCDM_differential_comoving_volume(ReadSeq(recs[r], Reads("differential_comoving_volume")), args[1]))
        /\ UNCHANGED <<recs, ctor, dicts, nset, asg, thr>>

Call_efunc ==
    /\ call.fn = NoCall.fn
    /\ \E r \in DOMAIN recs, args \in ArgsIn("efunc") :
        /\ EExact(args[1], recs[r].Om0, recs[r].w0)
        /\ Returned("efunc", r, args,
                    FlatwCDM_efunc(ReadSeq(recs[r], Reads("efunc")), args[1]))
        /\ UNCHANGED <<recs, ctor, dicts, nset, asg, thr>>

Call_inv_efunc ==
    /\ call.fn = NoCall.fn
    /\ \E r \in DOMAIN recs, args \in ArgsIn("inv_efunc") :
        /\ EExact(args[1], recs[r].Om0, recs[r].w0)
        /\ Returned("inv_efunc", r, args,
                    FlatwCDM_inv_efunc(ReadSeq(recs[r], Reads("inv_efunc")), args[1]))
        /\ UNCHANGED <<recs, ctor, dicts, nset, asg, thr>>

Call_H ==
    /\ call.fn = NoCall.fn
    /\ \E r \in DOMAIN recs, args \in ArgsIn("H") :
        /\ TRUE
        /\ Returned("H", r, args,
                    FlatwCDM_H(ReadSeq(recs[r], Reads("H")), args[1]))
        /\ UNCHANGED <<recs, ctor, dicts, nset, asg, thr>>

Call_comoving_distance ==
    /\ call.fn = NoCall.fn
    /\ \E r \in DOMAIN recs, args \in ArgsIn("comoving_distance") :
        /\ AIExact(args[1], recs[r].Om0, recs[r].w0, 0)
        /\ Returned("comoving_distance", r, args,
                    FlatwCDM_comoving_distance(ReadSeq(recs[r], Reads("comoving_distance")), args[1]))
        /\ UNCHANGED <<recs, ctor, dicts, nset, asg, thr>>

Call_comoving_volume ==
    /\ call.fn = NoCall.fn
    /\ \E r \in DOMAIN recs, args \in ArgsIn("comoving_volume") :
        /\ AIExact(args[1], recs[r].Om0, recs[r].w0, 0)
        /\ Returned("comoving_volume", r, args,
                    FlatwCDM_comoving_volume(ReadSeq(recs[r], Reads("comoving_volume")), args[1]))
        /\ UNCHANGED <<recs, ctor, dicts, nset, asg, thr>>

Call_lookback_time ==
    /\ call.fn = NoCall.fn
    /\ \E r \in DOMAIN recs, args \in ArgsIn("lookback_time") :
        /\ AIExact(args[1], recs[r].Om0, recs[r].w0, -1)
        /\ Returned("lookback_time", r, args,
                    FlatwCDM_lookback_time(ReadSeq(recs[r], Reads("lookback_time")), args[1]))
        /\ UNCHANGED <<recs, ctor, dicts, nset, asg, thr>>

Call_absorption_distance ==
    /\ call.fn = NoCall.fn
    /\ \E r \in DOMAIN recs, args \in ArgsIn("absorption_distance") :
        /\ AIExact(args[1], recs[r].Om0, recs[r].w0, 2)
        /\ Returned("absorption_distance", r, args,
                    FlatwCDM_absorption_distance(ReadSeq(recs[r], Reads("absorption_distance")), args[1]))
        /\ UNCHANGED <<recs, ctor, dicts, nset, asg, thr>>

Call_age ==
    /\ call.fn = NoCall.fn
    /\ \E r \in DOMAIN recs, args \in ArgsIn("age") :
        /\ AIExact(args[1], recs[r].Om0, recs[r].w0, -1)
        /\ AIExact(args[2], recs[r].Om0, recs[r].w0, -1)
        /\ Returned("age", r, args,
                    FlatwCDM_age(ReadSeq(recs[r], Reads("age")), args[1], args[2]))
        /\ UNCHANGED <<recs, ctor, dicts, nset, asg, thr>>

Call_detector_to_source_frame ==
    /\ call.fn = NoCall.fn
    /\ \E r \in DOMAIN recs, args \in ArgsIn("detector_to_source_frame") :
        /\ GridEval(recs[r], args[3])
        /\ Returned("detector_to_source_frame", r, args,
                    FlatwCDM_detector_to_source_frame(
                        ReadSeq(recs[r], Reads("detector_to_source_frame")),
                        args[1], args[2], args[3]))
        /\ UNCHANGED <<recs, ctor, dicts, nset, asg, thr>>

Call_source_to_detector_frame ==
    /\ call.fn = NoCall.fn
    /\ \E r \in DOMAIN recs, args \in ArgsIn("source_to_detector_frame") :
        /\ AIExact(args[3], recs[r].Om0, recs[r].w0, 0)
        /\ Returned("source_to_detector_frame", r, args,
                    FlatwCDM_source_to_detector_frame(
                        ReadSeq(recs[r], Reads("source_to_detector_frame")),
                        args[1], args[2], args[3]))
        /\ UNCHANGED <<recs, ctor, dicts, nset, asg, thr>>

Next ==
    \/ NewFlatwCDM
    \/ NewFlatLambdaCDM
    \/ SetMeta
    \/ SetAttr
    \/ GetAttr
    \/ CallAttr
    \/ Call_luminosity_distance
    \/ Call_dLdH
    \/ Call_dDLdz
    \/ Call_differential_comoving_volume
    \/ Call_efunc
    \/ Call_inv_efunc
    \/ Call_H
    \/ Call_comoving_distance
    \/ Call_comoving_volume
    \/ Call_lookback_time
    \/ Call_absorption_distance
    \/ Call_age
    \/ Call_detector_to_source_frame
    \/ Call_source_to_detector_frame
    \/ Take

Spec == ModuleLoaded /\ [][Next]_vars

----------------------------------------------------------------------------
(* Threads: bound operations and module-level formulas called concurrently  *)
(*                                                                          *)
(* A bound operation reads the attributes of its record one at a time       *)
(* (Reads), other threads running in between, and then computes from the    *)
(* values it read; a module-level formula reads nothing but its arguments.  *)
(* The steps interleaved are those of calls and of the construction of a    *)
(* record; assignments to a record are steps of Spec.                       *)

ConcZIn == {Py(3, 1)}

\* the bound operations the threads call, and the records they call them on
ConcOps == {"H", "dLdH", "detector_to_source_frame"}

ConcSelfIn == {1, NPresets + 1}

ConcArgsIn(name) ==
    IF name = "detector_to_source_frame"
    THEN {<<Py(20, 1), Py(16, 1), dL>> :
             dL \in {luminosity_distance(Py(96, 1), Py(70, 1), Py(0, 1), Py(-1, 1))}}
    ELSE {<<z>> : z \in ConcZIn}

ConcCanEval(name, self, args) ==
    CASE name = "H" -> TRUE
      [] name = "dLdH" -> AIExact(args[1], self.Om0, self.w0, 0)
      [] name = "detector_to_source_frame" -> GridEval(self, args[3])

\* the module-level formulas the threads call, on arguments of their own
ModuleOps == {"luminosity_distance", "hubble_parameter"}

ModuleArgsIn == {<<z, Py(70, 1), Py(0, 1), Py(-5, 3)>> : z \in ConcZIn}

module_call(name, args) ==
    CASE name = "luminosity_distance" ->
            luminosity_distance(args[1], args[2], args[3], args[4])
      [] name = "hubble_parameter" ->
            hubble_parameter(args[1], args[2], args[3], args[4])

\* a thread calls a bound operation of a shared record
Begin ==
    \E t \in Threads, name \in ConcOps, r \in ConcSelfIn \cap DOMAIN recs :
      \E args \in ConcArgsIn(name) :
        /\ thr[t].pc = "idle"
        /\ ConcCanEval(name, recs[r], args)
        /\ thr' = [thr EXCEPT ![t] = [pc |-> "read", op |-> name, self |-> r,
                                      rec |-> recs[r], args |-> args,
                                      rd |-> <<>>, ret |-> <<>>]]
        /\ UNCHANGED <<recs, ctor, dicts, nset, asg, call>>

\* a thread calls a module-level formula
BeginModule ==
    \E t \in Threads, name \in ModuleOps, args \in ModuleArgsIn :
        /\ thr[t].pc = "idle"
        /\ thr' = [thr EXCEPT ![t] = [pc |-> "read", op |-> name, self |-> 0,
                                      rec |-> NoRecord, args |-> args,
                                      rd |-> <<>>, ret |-> <<>>]]
        /\ UNCHANGED <<recs, ctor, dicts, nset, asg, call>>

\* the attributes a call in progress reads
ThreadReads(c) == IF c.self = 0 THEN <<>> ELSE Reads(c.op)

\* a read of self.H0 that leaves H0 in the record in units of 100 km/s/Mpc
ReadAttr_rescaling ==
    \E t \in Threads :
        /\ thr[t].pc = "read"
        /\ Len(thr[t].rd) < Len(ThreadReads(thr[t]))
        /\ thr' = [thr EXCEPT ![t].rd =
                      Append(@, recs[thr[t].self][ThreadReads(thr[t])[Len(@) + 1]])]
        /\ recs' = IF ThreadReads(thr[t])[Len(thr[t].rd) + 1] = "H0"
                   THEN [recs EXCEPT ![thr[t].self].H0 = Div(@, Py(100, 1))]
                   ELSE recs
        /\ UNCHANGED <<ctor, dicts, nset, asg, call>>

\* the next attribute read of a bound operation: self.<attribute>
ReadAttr ==
    \E t \in Threads :
        /\ thr[t].pc = "read"
        /\ Len(thr[t].rd) < Len(ThreadReads(thr[t]))
        /\ thr' = [thr EXCEPT ![t].rd =
                      Append(@, recs[thr[t].self][ThreadReads(thr[t])[Len(@) + 1]])]
        /\ UNCHANGED <<recs, ctor, dicts, nset, asg, call>>

\* the computation on the values read, up to the return statement
Compute ==
    \E t \in Threads :
        /\ thr[t].pc = "read"
        /\ Len(thr[t].rd) = Len(ThreadReads(thr[t]))
        /\ thr' = [thr EXCEPT ![t].pc = "done",
                              ![t].ret = IF thr[t].self = 0
                                         THEN module_call(thr[t].op, thr[t].args)
                                         ELSE bound(thr[t].op, thr[t].rd, thr[t].args)]
        /\ UNCHANGED <<recs, ctor, dicts, nset, asg, call>>

\* the caller takes the result
Return ==
    \E t \in Threads :
        /\ thr[t].pc = "done"
        /\ thr' = [thr EXCEPT ![t] = Idle]
        /\ UNCHANGED <<recs, ctor, dicts, nset, asg, call>>

NextConc ==
    \/ NewFlatwCDM
    \/ Begin
    \/ BeginModule
    \/ ReadAttr
    \/ Compute
    \/ Return

SpecConc == ModuleLoaded /\ [][NextConc]_vars

----------------------------------------------------------------------------
(* Properties of the module-level functions (under SpecFn)                  *)

\* equality and order of values, whatever their kind
Eqv(a, b) == a.t = "num" /\ b.t = "num" /\ a.n = b.n /\ a.d = b.d /\ a.u = b.u

Between(x, a, b) == (Le(a, x) /\ Le(x, b)) \/ (Le(b, x) /\ Le(x, a))

\* the function's values at zmin and at zmax, the two ends of the grid, in
\* the z_at_value call in call
CallLow == ForwardAt(call.args[1], WithKind(call.args[3], "np"), call.args[5])

CallHigh == ForwardAt(call.args[1], WithKind(call.args[4], "np"), call.args[5])

\* the forward functions that are strictly monotonic in z > 0: z^2 and the
\* distances increase, -z and 1/z decrease
MonotonicForward == ModuleForward \cup {"square", "negate", "reciprocal"}

\* C1: hubble_parameter(z, H0, Om0, w0) completes with the value
\* hubble_distance(H0) * inv_efunc(z, Om0, w0) and not with an error
\* (stated where inv_efunc itself is a finite number).
C1_HubbleParameterValue ==
    (call.fn = "hubble_parameter"
        /\ EExact(call.args[1], call.args[3], call.args[4])
        /\ IsNum(inv_efunc(call.args[1], call.args[3], call.args[4])))
    => /\ ~IsExc(call.ret)
       /\ call.ret = Mul(hubble_distance(call.args[2]),
                         inv_efunc(call.args[1], call.args[3], call.args[4]))

\* C2: for a forward function strictly monotonic over [zmin, zmax],
\* increasing or decreasing, with finite values, and a target between
\* f(zmin) and f(zmax), z_at_value returns a redshift in [zmin, zmax], and the
\* grid point itself when the target is the function's value at a grid
\* point: zmin for f(zmin) and zmax for f(zmax).
C2_InvertsMonotonic ==
    (call.fn = "z_at_value"
        /\ call.args[1] \in MonotonicForward
        /\ CallLow.t = "num" /\ CallHigh.t = "num"
        /\ Between(call.args[2], CallLow, CallHigh))
    => /\ call.ret.t = "num"
       /\ Between(call.ret, call.args[3], call.args[4])
       /\ Eqv(call.args[2], CallLow) => Eqv(call.ret, call.args[3])
       /\ Eqv(call.args[2], CallHigh) => Eqv(call.ret, call.args[4])

\* a target below, above the function's values at both ends of the grid
Below(fval) == Lt(fval, CallLow) /\ Lt(fval, CallHigh)

Above(fval) == Lt(CallLow, fval) /\ Lt(CallHigh, fval)

C7_InvEfuncNeverRaises ==
    call.fn = "inv_efunc"
    => LET E == efunc(call.args[1], call.args[2], call.args[3])
       IN  /\ IsZero(E) => (call.ret.t = "inf" /\ call.ret.n = 1)
           /\ (IsNum(E) /\ ~IsZero(E)) => Eqv(Mul(call.ret, E), One)

\* the same for numpy values only: what the code does
C7_InvEfuncNumpy ==
    (call.fn = "inv_efunc" /\ call.args[1].k # "py")
    => LET E == efunc(call.args[1], call.args[2], call.args[3])
       IN  /\ IsZero(E) => (call.ret.t = "inf" /\ call.ret.n = 1)
           /\ (IsNum(E) /\ ~IsZero(E)) => Eqv(Mul(call.ret, E), One)

----------------------------------------------------------------------------
(* Properties of the records (under Spec)                                   *)

\* a bound operation: a method, or the property hubble_distance
BoundCalls == FlatwCDM_methods \cup {"hubble_distance"}

\* the record self after the assignments that log holds for record r
RECURSIVE Assigned(_, _, _)
Assigned(self, r, log) ==
    IF Len(log) = 0 THEN self
    ELSE Assigned(IF log[1][1] = r THEN setattr(self, log[1][2], log[1][3]) ELSE self,
                  r, Tail(log))

\* FlatwCDM(H0, Om0, w0=-1, zmin, zmax, name, meta) for the arguments record
\* r was constructed with, after the assignments made to record r
Twin(r) ==
    Assigned(FlatwCDM_init(ctor[r].H0, ctor[r].Om0, Py(-1, 1), ctor[r].zmin,
                           ctor[r].zmax, ctor[r].name, ctor[r].meta, Len(dicts) + 1),
             r, asg)

\* the attribute of record r has been assigned
WasAssigned(r, name) == \E i \in 1..Len(asg) : asg[i][1] = r /\ asg[i][2] = name

\* the contents of the mapping a constructor given meta leaves in the record
MetaGiven(meta) == IF meta = None THEN {} ELSE dicts[meta]

\* C5: a record constructed by FlatLambdaCDM holds the field values that
\* FlatwCDM with w0 = -1 and the same other arguments holds (w0 = -1 until w0
\* is assigned, and the same meta contents until meta is assigned), also
\* after the same assignments to both, and every bound operation called on
\* it, every attribute read from it and every call of such an attribute
\* returns what it returns on that FlatwCDM record.
C5_FlatLambdaIsFlatwMinusOne ==
    /\ \A r \in DOMAIN recs :
          ctor[r].cls = "FlatLambdaCDM" =>
              /\ \A f \in PublicAttributes : recs[r][f] = Twin(r)[f]
              /\ ~WasAssigned(r, "w0") => recs[r].w0 = Py(-1, 1)
              /\ nset = 0 => dicts[recs[r]._meta] = MetaGiven(ctor[r].meta)
    /\ (call.fn \in FlatwCDM_methods \cup {"__call__"}
            /\ ctor[call.self].cls = "FlatLambdaCDM")
          => call.ret = getattr_call(Twin(call.self),
                                     IF call.fn = "__call__" THEN call.args[1] ELSE call.fn,
                                     IF call.fn = "__call__" THEN <<>> ELSE call.args)
    /\ (call.fn \in GetNames \ {"meta", "_meta"} /\ ctor[call.self].cls = "FlatLambdaCDM")
          => call.ret = getattr(Twin(call.self), call.fn)

\* a frame conversion has returned on a record the client constructed with
\* FlatLambdaCDM and a range of its own
C5_Witness ==
    /\ call.fn = "detector_to_source_frame"
    /\ call.self > NPresets
    /\ ctor[call.self].cls = "FlatLambdaCDM"
    /\ ctor[call.self].zmin # Default_zmin
    /\ call.ret[3].t = "num"

\* the fields of every record are what its constructor was given, and the
\* lookup table finds every preset under its name with the module's values
FieldsAsConstructed ==
    /\ \A r \in DOMAIN recs : \A f \in PublicAttributes : recs[r][f] = ctor[r][f]
    /\ \A n \in DOMAIN available :
          available[n].inst # 0 =>
              LET p == available[n].inst
              IN  /\ recs[p].name = n
                  /\ recs[p].H0 = PresetArgs[p].H0
                  /\ recs[p].Om0 = PresetArgs[p].Om0
                  /\ recs[p].w0 = Py(-1, 1)
                  /\ recs[p].zmin = Default_zmin
                  /\ recs[p].zmax = Default_zmax

\* a bound operation returns in this step
BoundCallStep == call' # call /\ call'.fn \in BoundCalls

\* C6 as claimed: in every reachable state H0, Om0, w0, zmin, zmax and name
\* of every record (presets included) equal the values given to its
\* constructor, and no step in which a bound operation returns changes any
\* field of a record.
C6_Immutable ==
    /\ []FieldsAsConstructed
    /\ [][BoundCallStep => UNCHANGED <<recs, dicts>>]_vars

\* the module-level function behind a bound operation, called with the
\* fields of the record
module_level(name, self, args) ==
    CASE name = "hubble_distance" -> hubble_distance(self.H0)
      [] name = "hubble_time" -> hubble_time(self.H0)
      [] name = "H" -> hubble_parameter(args[1], self.H0, self.Om0, self.w0)
      [] name = "efunc" -> efunc(args[1], self.Om0, self.w0)
      [] name = "inv_efunc" -> inv_efunc(args[1], self.Om0, self.w0)
      [] name = "comoving_distance" ->
            comoving_distance(args[1], self.H0, self.Om0, self.w0)
      [] name = "lookback_time" -> lookback_time(args[1], self.H0, self.Om0, self.w0)
      [] name = "absorption_distance" ->
            absorption_distance(args[1], self.Om0, self.w0)
      [] name = "luminosity_distance" ->
            luminosity_distance(args[1], self.H0, self.Om0, self.w0)
      [] name = "dDLdz" -> dDLdz(args[1], self.H0, self.Om0, self.w0)
      [] name = "differential_comoving_volume" ->
            differential_comoving_volume(args[1], self.H0, self.Om0, self.w0)
      [] name = "comoving_volume" -> comoving_volume(args[1], self.H0, self.Om0, self.w0)
      [] name = "detector_to_source_frame" ->
            detector_to_source_frame(args[1], args[2], args[3], self.H0, self.Om0,
                                     self.w0, self.zmin, self.zmax)
      [] name = "source_to_detector_frame" ->
            source_to_detector_frame(args[1], args[2], args[3], self.H0, self.Om0,
                                     self.w0)

LayerFormulas ==
    {"hubble_distance", "hubble_time", "H", "comoving_distance", "lookback_time",
     "absorption_distance", "luminosity_distance", "dDLdz",
     "differential_comoving_volume", "comoving_volume"}

FrameConversions == {"detector_to_source_frame", "source_to_detector_frame"}

\* C8 as claimed: every formula of the layer, hubble_time included, and both
\* frame conversions are bound operations of a record that return exactly
\* what the module-level function returns for the record's fields.
C8_EveryFormulaBound ==
    call.fn \in LayerFormulas \cup FrameConversions
    => call.ret = module_level(call.fn, recs[call.self], call.args)

\* C8 as amended: every formula of the layer but hubble_time, efunc and
\* inv_efunc, and both frame conversions complete on a record exactly as the
\* module-level function does for the record's current fields (the same
\* value or the same error; detector_to_source_frame with the record's
\* zmin and zmax), and hubble_time on a record is an AttributeError.
C8_BoundEqualsModuleLevel ==
    /\ call.fn \in ((LayerFormulas \ {"hubble_time"}) \cup FrameConversions
                        \cup {"efunc", "inv_efunc"})
          => call.ret = module_level(call.fn, recs[call.self], call.args)
    /\ call.fn = "hubble_time" => call.ret = Exc("AttributeError")

\* efunc has returned a number on a record whose w0 is not the default
C8_Witness ==
    /\ call.fn = "efunc"
    /\ call.self > NPresets
    /\ recs[call.self].w0 # Py(-1, 1)
    /\ call.args[1] # Py(0, 1)
    /\ call.ret.t = "num"

\* C10: the meta of every record is a mapping and never None; a constructor
\* given None leaves a new empty mapping that no other record refers to and
\* a constructor given a mapping leaves that mapping; a later assignment of
\* None leaves a new empty mapping no other record refers to, and a later
\* assignment of a mapping leaves that mapping.
C10_MetaNeverNone ==
    /\ \A r \in DOMAIN recs :
          /\ recs[r]._meta # None
          /\ recs[r]._meta \in DOMAIN dicts
          /\ nset = 0 =>
                IF ctor[r].meta = None
                THEN /\ dicts[recs[r]._meta] = {}
                     /\ recs[r]._meta # UserDict
                     /\ \A q \in DOMAIN recs \ {r} : recs[q]._meta # recs[r]._meta
                ELSE recs[r]._meta = ctor[r].meta
    /\ call.fn = "meta.setter" =>
          IF call.args[1] = None
          THEN /\ dicts[recs[call.self]._meta] = {}
               /\ recs[call.self]._meta = Len(dicts)
               /\ \A q \in DOMAIN recs \ {call.self} :
                     recs[q]._meta # recs[call.self]._meta
          ELSE recs[call.self]._meta = call.args[1]

\* None has been assigned to the meta of a record constructed with a mapping
C10_Witness ==
    /\ call.fn = "meta.setter"
    /\ call.args[1] = None
    /\ call.self > NPresets
    /\ ctor[call.self].meta = UserDict

----------------------------------------------------------------------------
(* Properties of concurrent calls (under SpecConc)                          *)

\* what a call returns when it runs alone, with the same arguments on the
\* record as it was when the call was made
Alone(c) ==
    IF c.self = 0
    THEN module_call(c.op, c.args)
    ELSE bound(c.op, ReadSeq(c.rec, Reads(c.op)), c.args)

\* every completed call has returned what it returns alone, and every value
\* a call has read is the value the record held when the call was made
CallsAsAlone ==
    \A t \in Threads :
        /\ thr[t].pc = "done" => thr[t].ret = Alone(thr[t])
        /\ \A i \in 1..Len(thr[t].rd) :
              thr[t].rd[i] = thr[t].rec[ThreadReads(thr[t])[i]]

\* a step of a thread's call
ThreadStep == thr' # thr

\* C9: under any interleaving of calls of module-level formulas and of bound
\* operations on shared records, every call returns what it returns alone
\* with the same arguments, every value it reads is the value the record
\* held when the call was made, and no step of a call changes a record or a
\* mapping.
C9_NoSharedMutableState ==
    /\ []CallsAsAlone
    /\ [][ThreadStep => UNCHANGED <<recs, dicts>>]_vars

\* one thread has completed dLdH on the client's record while the other is
\* between the reads of a call on the same record
C9_Witness ==
    \E t \in Threads, q \in Threads :
        /\ t # q
        /\ thr[t].pc = "done" /\ thr[t].op = "dLdH" /\ thr[t].self > NPresets
        /\ thr[t].ret.t = "num"
        /\ thr[q].pc = "read" /\ thr[q].self = thr[t].self
        /\ Len(thr[q].rd) = 2

====
